---- MODULE Spec2Model ----
(***************************************************************************)
(* Lab-value extraction and sanitizing of nafld_streamlit_app.py.          *)
(*                                                                         *)
(* A text is a sequence of characters, each character a one-character      *)
(* string (code points outside ASCII are written by name: "u2013").        *)
(* Patterns are sequences of regex nodes, matched by a backtracking        *)
(* matcher with Python's re semantics (leftmost match, alternatives in     *)
(* order, greedy and lazy repetition, zero-width lookahead, re.I).         *)
(* Floats are fixed-point integers: a number x is held as x * Scale.       *)
(***************************************************************************)
EXTENDS Integers, Sequences, FiniteSets, TLC

VARIABLES up, data, raw_text, session_state, before, pc,
          row, fields, results, score, shown

vars == <<up, data, raw_text, session_state, before, pc,
          row, fields, results, score, shown>>

\* the variables of the batch expander and of the score display
others == <<row, fields, results, score, shown>>

-----------------------------------------------------------------------------
(* Characters *)

UpperLetters == <<"A","B","C","D","E","F","G","H","I","J","K","L","M",
                  "N","O","P","Q","R","S","T","U","V","W","X","Y","Z">>

LowerLetters == <<"a","b","c","d","e","f","g","h","i","j","k","l","m",
                  "n","o","p","q","r","s","t","u","v","w","x","y","z">>

Letters == {LowerLetters[i] : i \in 1..26}

Digits == {"0","1","2","3","4","5","6","7","8","9"}

\* \s of the re module, over the characters texts are made of
Spaces == {" ", "\t", "\n", "\r"}

EnDash == "u2013"

Hyphen2010 == "u2010"

Micro == "u00b5"

ToLower == [c \in {UpperLetters[i] : i \in 1..26} |->
              LowerLetters[CHOOSE i \in 1..26 : UpperLetters[i] = c]]

ToUpper == [c \in Letters |-> UpperLetters[CHOOSE i \in 1..26 : LowerLetters[i] = c]]

\* str.lower() of one character
Lower(c) == IF c \in DOMAIN ToLower THEN ToLower[c] ELSE c

\* str.upper() of one character
Upper(c) == IF c \in DOMAIN ToUpper THEN ToUpper[c] ELSE c

LowerStr(s) == [i \in 1..Len(s) |-> Lower(s[i])]

UpperStr(s) == [i \in 1..Len(s) |-> Upper(s[i])]

-----------------------------------------------------------------------------
(* Regex nodes.  A pattern is a sequence of nodes.                         *)

\* flags=re.I: a character of a pattern stands for both of its cases
BothCases(S) == S \cup {Lower(c) : c \in S} \cup {Upper(c) : c \in S}

\* a literal word, compared without regard to case
Lit(w) == << [t |-> "word", w |-> LowerStr(w)] >>

\* [...]: one character of the set
Cls(S) == << [t |-> "set", neg |-> FALSE, cs |-> BothCases(S)] >>

\* [^...]: one character not of the set
NotCls(S) == << [t |-> "set", neg |-> TRUE, cs |-> BothCases(S)] >>

\* (?:a|b|...): the alternatives in order
Alt(as) == << [t |-> "alt", alts |-> as] >>

\* sub{lo,hi}, greedy; hi = -1 is unbounded
Rep(sub, lo, hi) == << [t |-> "rep", sub |-> sub, lo |-> lo, hi |-> hi, lazy |-> FALSE] >>

\* sub{lo,hi}?, lazy
RepLazy(sub, lo, hi) == << [t |-> "rep", sub |-> sub, lo |-> lo, hi |-> hi, lazy |-> TRUE] >>

\* sub?
Opt(sub) == Rep(sub, 0, 1)

\* sub*
Star(sub) == Rep(sub, 0, -1)

\* sub+
Plus(sub) == Rep(sub, 1, -1)

\* (sub): capture group n
Cap(n, sub) == << [t |-> "open", n |-> n] >> \o sub \o << [t |-> "close", n |-> n] >>

\* (?=sub)
Look(sub) == << [t |-> "look", sub |-> sub] >>

NoCaps == << <<0, 0>>, <<0, 0>> >>

Fail == [ok |-> FALSE, end |-> 0, caps |-> NoCaps]

\* r, or where r is no match, other (which is evaluated only then)
FirstOk(r, other) == IF r.ok THEN r ELSE other

Min(a, b) == IF a <= b THEN a ELSE b

\* the least and the greatest of a non-empty set of positions
Least(S) == CHOOSE x \in S : \A y \in S : x <= y

Greatest(S) == CHOOSE x \in S : \A y \in S : y <= x

\* whether the character class node c takes the character at position p of s
Takes(c, s, p) == p <= Len(s) /\ ((s[p] \in c.cs) # c.neg)

\* whether the word w stands at position p of s, in either case
Stands(w, s, p) ==
  p + Len(w) - 1 <= Len(s) /\ \A j \in 1..Len(w) : Lower(s[p + j - 1]) = w[j]

\* The characters a match of pat can begin with, where pat (group marks aside)
\* begins with a character class, a word, a repeated class that is taken at
\* least once, or alternatives that each begin with a word; any: nothing is
\* known, every position may begin a match.
NoFirst == [any |-> TRUE, neg |-> FALSE, cs |-> {}]

FirstOfWord(n) == [any |-> FALSE, neg |-> FALSE, cs |-> BothCases({n.w[1]})]

FirstOfNode(n) ==
  CASE n.t = "set" -> [any |-> FALSE, neg |-> n.neg, cs |-> n.cs]
    [] n.t = "word" -> FirstOfWord(n)
    [] n.t = "rep" ->
         IF n.lo >= 1 /\ Len(n.sub) = 1 /\ n.sub[1].t = "set"
         THEN [any |-> FALSE, neg |-> n.sub[1].neg, cs |-> n.sub[1].cs]
         ELSE NoFirst
    [] n.t = "alt" ->
         IF \A j \in 1..Len(n.alts) : n.alts[j] # << >> /\ n.alts[j][1].t = "word"
         THEN [any |-> FALSE, neg |-> FALSE,
               cs |-> UNION {FirstOfWord(n.alts[j][1]).cs : j \in 1..Len(n.alts)}]
         ELSE NoFirst
    [] OTHER -> NoFirst

FirstOfUnmarked(nodes) ==
  IF nodes = << >> THEN NoFirst ELSE FirstOfNode(nodes[1])

FirstChars(pat) == FirstOfUnmarked(SelectSeq(pat, LAMBDA n : n.t \notin {"open", "close"}))

\* the positions of a..b at which, by its first characters, a match may begin
Candidates(s, first, a, b) ==
  IF first.any THEN a..b
  ELSE IF first.neg THEN {p \in a..Min(b, Len(s)) : s[p] \notin first.cs}
  ELSE {p \in a..Min(b, Len(s)) : s[p] \in first.cs}

\* the position after the longest run of characters of class c from i on that
\* ends at limit at the latest
EndBefore(stops, limit) == IF stops = {} THEN limit + 1 ELSE Least(stops)

RunEnd(s, c, i, limit) ==
  EndBefore(IF c.neg THEN {p \in i..limit : s[p] \in c.cs}
            ELSE {p \in i..limit : s[p] \notin c.cs}, limit)

\* the last position a repetition of at most hi characters from i on may take
RepLimit(s, i, hi) == IF hi < 0 THEN Len(s) ELSE Min(Len(s), i + hi - 1)

\* the positions at which a repetition c{lo,hi} that begins at i may end and the
\* rest of the pattern go on
RepEnds(s, n, rest, i) ==
  Candidates(s, FirstChars(rest), i + n.lo, RunEnd(s, n.sub[1], i, RepLimit(s, i, n.hi)))

RECURSIVE Match(_, _, _, _)
RECURSIVE TryEach(_, _, _, _, _)

\* The first way, in backtracking order, in which `nodes` matches s from
\* position i on: [ok, end (the position after the match), caps].
Match(s, nodes, i, caps) ==
  IF nodes = << >> THEN [ok |-> TRUE, end |-> i, caps |-> caps]
  ELSE
    LET n == Head(nodes)
        rest == Tail(nodes)
    IN CASE n.t = "set" ->
              IF Takes(n, s, i) THEN Match(s, rest, i + 1, caps) ELSE Fail
         [] n.t = "word" ->
              IF Stands(n.w, s, i) THEN Match(s, rest, i + Len(n.w), caps) ELSE Fail
         [] n.t = "open" ->
              Match(s, rest, i, [caps EXCEPT ![n.n] = <<i, i>>])
         [] n.t = "close" ->
              Match(s, rest, i, [caps EXCEPT ![n.n] = <<caps[n.n][1], i>>])
         [] n.t = "look" ->
              IF Match(s, n.sub, i, caps).ok THEN Match(s, rest, i, caps) ELSE Fail
         [] n.t = "alt" ->
              IF n.alts = << >> THEN Fail
              ELSE FirstOk(Match(s, Head(n.alts) \o rest, i, caps),
                           Match(s, Alt(Tail(n.alts)) \o rest, i, caps))
         [] n.t = "rep" /\ Len(n.sub) = 1 /\ n.sub[1].t = "set" ->
              \* a repeated character class: the run is taken as far as it goes,
              \* and the rest is tried at its ends, shortest first where lazy,
              \* longest first where greedy
              TryEach(s, rest, RepEnds(s, n, rest, i), ~n.lazy, caps)
         [] n.t = "rep" /\ ~(Len(n.sub) = 1 /\ n.sub[1].t = "set") ->
              LET more == n.sub \o << [n EXCEPT !.lo = IF n.lo > 0 THEN n.lo - 1 ELSE 0,
                                                !.hi = IF n.hi > 0 THEN n.hi - 1 ELSE n.hi] >>
                                \o rest
              IN IF n.lo > 0 THEN Match(s, more, i, caps)
                 ELSE IF n.hi = 0 THEN Match(s, rest, i, caps)
                 ELSE IF n.lazy
                      THEN FirstOk(Match(s, rest, i, caps), Match(s, more, i, caps))
                      ELSE FirstOk(Match(s, more, i, caps), Match(s, rest, i, caps))

\* of the matches found from several positions, the one from the least
\* position, or where down, from the greatest
FirstMatch(found, down) ==
  IF found = {} THEN Fail
  ELSE (CHOOSE r \in found :
          \A q \in found : IF down THEN q.p <= r.p ELSE r.p <= q.p).m

\* the first match of `nodes` from one of the positions ps, tried from the
\* least up, or where down, from the greatest down
TryEach(s, nodes, ps, down, caps) ==
  FirstMatch({r \in {[p |-> p, m |-> Match(s, nodes, p, caps)] : p \in ps} : r.m.ok}, down)

\* re.search(pat, s, flags=re.I): the match at the leftmost position at which
\* pat matches
Search(pat, s) ==
  TryEach(s, pat, Candidates(s, FirstChars(pat), 1, Len(s) + 1), FALSE, NoCaps)

\* m.group(n)
Group(m, s, n) == SubSeq(s, m.caps[n][1], m.caps[n][2] - 1)

-----------------------------------------------------------------------------
(* Values: a float (fixed point), a str (sequence of characters) or None   *)

Scale == 1000

Num(n) == [kind |-> "num", num |-> n, str |-> << >>]

Str(s) == [kind |-> "str", num |-> 0, str |-> s]

None == [kind |-> "none", num |-> 0, str |-> << >>]

IsNum(v) == v.kind = "num"

\* dict assignment m[k] = v
Put(m, k, v) == [x \in (DOMAIN m) \cup {k} |-> IF x = k THEN v ELSE m[x]]

EmptyDict == [x \in {} |-> None]

\* no CSV row read, no score computed or shown yet
OthersIdle ==
  /\ row = EmptyDict
  /\ fields = EmptyDict
  /\ results = << >>
  /\ score = [of |-> "none", x |-> None]
  /\ shown = [category |-> "", sub |-> None]

DigitVal(c) == CHOOSE d \in 0..9 : <<"0","1","2","3","4","5","6","7","8","9">>[d + 1] = c

RECURSIVE StripLeft(_)
StripLeft(s) == IF s # << >> /\ Head(s) \in Spaces THEN StripLeft(Tail(s)) ELSE s

RECURSIVE StripRight(_)
StripRight(s) ==
  IF s # << >> /\ s[Len(s)] \in Spaces THEN StripRight(SubSeq(s, 1, Len(s) - 1)) ELSE s

\* str.strip()
Strip(s) == StripLeft(StripRight(s))

RECURSIVE IntOfDigits(_)
\* the value of a string of decimal digits
IntOfDigits(s) ==
  IF s = << >> THEN 0 ELSE 10 * IntOfDigits(SubSeq(s, 1, Len(s) - 1)) + DigitVal(s[Len(s)])

AllDigits(s) == \A i \in 1..Len(s) : s[i] \in Digits

\* the fraction .d1d2d3... in units of 1/Scale (digits beyond the third are cut)
FracOfDigits(s) ==
  LET d(i) == IF i <= Len(s) THEN DigitVal(s[i]) ELSE 0
  IN 100 * d(1) + 10 * d(2) + d(3)

\* float(v): [ok, num].  A float is returned as it is; a str is stripped and read
\* as digits with an optional fraction (every other str, and None, raises).
FloatOf(v) ==
  CASE v.kind = "num" -> [ok |-> TRUE, num |-> v.num]
    [] v.kind = "none" -> [ok |-> FALSE, num |-> 0]
    [] v.kind = "str" ->
         LET s == Strip(v.str)
             dots == {i \in 1..Len(s) : s[i] = "."}
         IN IF s = << >> THEN [ok |-> FALSE, num |-> 0]
            ELSE IF dots = {}
            THEN IF AllDigits(s) THEN [ok |-> TRUE, num |-> Scale * IntOfDigits(s)]
                 ELSE [ok |-> FALSE, num |-> 0]
            ELSE LET p == CHOOSE i \in dots : TRUE
                     ip == SubSeq(s, 1, p - 1)
                     fp == SubSeq(s, p + 1, Len(s))
                 IN IF Cardinality(dots) = 1 /\ AllDigits(ip) /\ AllDigits(fp)
                       /\ Len(ip) + Len(fp) > 0
                    THEN [ok |-> TRUE, num |-> Scale * IntOfDigits(ip) + FracOfDigits(fp)]
                    ELSE [ok |-> FALSE, num |-> 0]

-----------------------------------------------------------------------------
(* The pattern catalog *)

NotNL == NotCls({"\n"})

NotDigit == NotCls(Digits)

\* \d+(?:\.\d+)?
Number == Plus(Cls(Digits)) \o Opt(Lit(<<".">>) \o Plus(Cls(Digits)))

\* (?:U/?L|IU/?L)
EnzymeUnit ==
  Alt(<< Lit(<<"U">>) \o Opt(Lit(<<"/">>)) \o Lit(<<"L">>),
         Lit(<<"I","U">>) \o Opt(Lit(<<"/">>)) \o Lit(<<"L">>) >>)

\* (?:AST|SGOT)
AstLabel == Alt(<< Lit(<<"A","S","T">>), Lit(<<"S","G","O","T">>) >>)

\* (?:ALT|SGPT)
AltLabel == Alt(<< Lit(<<"A","L","T">>), Lit(<<"S","G","P","T">>) >>)

\* (?:GGT|Gamma[\-\s]*glutamyl[\-\s]*transferase)
GgtLabel ==
  Alt(<< Lit(<<"G","G","T">>),
         Lit(<<"G","a","m","m","a">>) \o Star(Cls({"-"} \cup Spaces))
           \o Lit(<<"g","l","u","t","a","m","y","l">>) \o Star(Cls({"-"} \cup Spaces))
           \o Lit(<<"t","r","a","n","s","f","e","r","a","s","e">>) >>)

\* (?:Triglycerides?|TG)
TgLabel ==
  Alt(<< Lit(<<"T","r","i","g","l","y","c","e","r","i","d","e">>) \o Opt(Lit(<<"s">>)),
         Lit(<<"T","G">>) >>)

\* (?:Platelets?|Platelet\s*count)
PlateletLabel ==
  Alt(<< Lit(<<"P","l","a","t","e","l","e","t">>) \o Opt(Lit(<<"s">>)),
         Lit(<<"P","l","a","t","e","l","e","t">>) \o Star(Cls(Spaces))
           \o Lit(<<"c","o","u","n","t">>) >>)

\* (?:Albumin)
AlbuminLabel == Lit(<<"A","l","b","u","m","i","n">>)

\* (?:ref(?:erence)?\s*range|range)
RangeWord ==
  Alt(<< Lit(<<"r","e","f">>) \o Opt(Lit(<<"e","r","e","n","c","e">>)) \o Star(Cls(Spaces))
           \o Lit(<<"r","a","n","g","e">>),
         Lit(<<"r","a","n","g","e">>) >>)

\* (?:Patient\s*Name|Name)
NameLabel ==
  Alt(<< Lit(<<"P","a","t","i","e","n","t">>) \o Star(Cls(Spaces)) \o Lit(<<"N","a","m","e">>),
         Lit(<<"N","a","m","e">>) >>)

\* (?:Sex|Gender)
SexLabel == Alt(<< Lit(<<"S","e","x">>), Lit(<<"G","e","n","d","e","r">>) >>)

\* (Male|Female|M|F)
SexToken ==
  Cap(1, Alt(<< Lit(<<"M","a","l","e">>), Lit(<<"F","e","m","a","l","e">>),
                Lit(<<"M">>), Lit(<<"F">>) >>))

\* ([A-Za-z][A-Za-z\s\.\-']{1,60})
NameToken == Cap(1, Cls(Letters) \o Rep(Cls(Letters \cup Spaces \cup {".", "-", "'"}), 1, 60))

\* label[^\n]{0,80}?(\d+(?:\.\d+)?)(?=[^\n]{0,window}unit)
StrictLab(label, window, unit) ==
  label \o RepLazy(NotNL, 0, 80) \o Cap(1, Number) \o Look(Rep(NotNL, 0, window) \o unit)

\* label[^\d]{0,80}?(\d+(?:\.\d+)?)
LooseLab(label) == label \o RepLazy(NotDigit, 0, 80) \o Cap(1, Number)

STRICT_PATTERNS ==
  [ast_ul |-> StrictLab(AstLabel, 20, EnzymeUnit),
   alt_ul |-> StrictLab(AltLabel, 20, EnzymeUnit),
   ggt_ul |-> StrictLab(GgtLabel, 20, EnzymeUnit),
   tg_mgdl |-> StrictLab(TgLabel, 20, Lit(<<"m","g">>) \o Opt(Lit(<<"/">>)) \o Lit(<<"d","L">>)),
   platelets |-> StrictLab(PlateletLabel, 30,
                   Alt(<< Lit(<<"1","0","^","9">>) \o Opt(Lit(<<"/">>)) \o Lit(<<"L">>),
                          Lit(<<"1","0","^","3">>) \o Opt(Lit(<<"/">>)) \o Opt(Lit(<<Micro>>))
                            \o Lit(<<"L">>) >>)),
   albumin_gdl |-> StrictLab(AlbuminLabel, 20,
                     Lit(<<"g">>) \o Opt(Lit(<<"/">>)) \o Cls({"d"}) \o Cls({"l"})),
   uln_ast |-> AstLabel \o RepLazy(NotNL, 0, 80) \o RangeWord \o RepLazy(NotNL, 0, 40)
                 \o Cap(1, Rep(Cls(Digits), 2, 3)) \o Star(Cls(Spaces)) \o Opt(EnzymeUnit),
   name |-> NameLabel \o Star(Cls(Spaces)) \o Cls({":", "-"}) \o Star(Cls(Spaces)) \o NameToken,
   sex |-> SexLabel \o Star(Cls(Spaces)) \o Cls({":", "-"}) \o Star(Cls(Spaces)) \o SexToken,
   age |-> Lit(<<"A","g","e">>) \o Star(Cls(Spaces)) \o Cls({":", "-"}) \o Star(Cls(Spaces))
             \o Cap(1, Rep(Cls(Digits), 1, 3))
             \o Opt(Star(Cls(Spaces))
                    \o Alt(<< Lit(<<"y","e","a","r">>) \o Opt(Lit(<<"s">>)),
                              Lit(<<"y","r">>) \o Opt(Lit(<<"s">>)),
                              Lit(<<"y">>) >>))]

LOOSE_PATTERNS ==
  [ast_ul |-> LooseLab(AstLabel),
   alt_ul |-> LooseLab(AltLabel),
   ggt_ul |-> LooseLab(GgtLabel),
   tg_mgdl |-> LooseLab(TgLabel),
   platelets |-> LooseLab(PlateletLabel),
   albumin_gdl |-> LooseLab(AlbuminLabel),
   uln_ast |-> AstLabel \o RepLazy(NotNL, 0, 80) \o RangeWord \o RepLazy(NotNL, 0, 40)
                 \o Cap(1, Rep(Cls(Digits), 2, 3)),
   name |-> NameLabel \o Rep(NotNL, 0, 20) \o NameToken,
   sex |-> SexLabel \o Rep(NotNL, 0, 20) \o SexToken,
   age |-> Lit(<<"A","g","e">>) \o Rep(NotDigit, 0, 20) \o Cap(1, Rep(Cls(Digits), 1, 3))]

\* STRICT_PATTERNS.keys(), in the order of the dict
Keys == <<"ast_ul", "alt_ul", "ggt_ul", "tg_mgdl", "platelets", "albumin_gdl",
          "uln_ast", "name", "sex", "age">>

\* (\d{1,3})\s*[-u2013u2010]\s*(\d{2,3})
RangeTail ==
  Cap(1, Rep(Cls(Digits), 1, 3)) \o Star(Cls(Spaces)) \o Cls({"-", EnDash, Hyphen2010})
    \o Star(Cls(Spaces)) \o Cap(2, Rep(Cls(Digits), 2, 3))

ULN_RANGE_PATTERNS ==
  << AstLabel \o RepLazy(NotNL, 0, -1) \o Lit(<<"U">>) \o Opt(Lit(<<"/">>)) \o Lit(<<"L">>)
       \o RepLazy(NotNL, 0, -1) \o RangeTail,
     AstLabel \o RepLazy(NotNL, 0, -1)
       \o Alt(<< Lit(<<"r","e","f">>) \o Opt(Lit(<<"e","r","e","n","c","e">>))
                   \o Star(Cls(Spaces))
                   \o Alt(<< Lit(<<"r","a","n","g","e">>),
                             Lit(<<"i","n","t","e","r","v","a","l">>) >>),
                 Lit(<<"b","i","o">>) \o Opt(Lit(<<".">>)) \o Star(Cls(Spaces))
                   \o Lit(<<"r","e","f">>) \o RepLazy(NotNL, 0, -1),
                 Lit(<<"r","a","n","g","e">>) >>)
       \o RepLazy(NotNL, 0, -1) \o RangeTail >>

-----------------------------------------------------------------------------
(* parse_pdf_bytes_return_text *)

\* A document: whether pdfplumber can open it, and per page the text that
\* page.extract_text() returns (text = FALSE: it returns None).
Page(chars) == [text |-> TRUE, chars |-> chars]

NoTextPage == [text |-> FALSE, chars |-> << >>]

RECURSIVE Join(_)
\* "\n".join(texts)
Join(texts) ==
  IF texts = << >> THEN << >>
  ELSE IF Len(texts) = 1 THEN texts[1]
  ELSE texts[1] \o <<"\n">> \o Join(Tail(texts))

\* [page.extract_text() or "" for page in pdf.pages], joined
FullText(doc) ==
  Join([i \in 1..Len(doc.pages) |->
          IF doc.pages[i].text THEN doc.pages[i].chars ELSE << >>])

Blank(c) == c \in Spaces \ {"\r", "\n"}

\* the characters at the positions keep, a blank as a space
BlanksAsSpace(s, keep) == [q \in 1..Len(keep) |-> IF Blank(s[keep[q]]) THEN " " ELSE s[keep[q]]]

\* the positions 1, 2, ..., n
Positions(n) == [q \in 1..n |-> q]

\* re.sub(r"[^\S\r\n]+", " ", full): a run of blanks other than \r and \n
\* becomes one space (of each run its first blank is kept, as a space)
CollapseBlanks(s) ==
  BlanksAsSpace(s, SelectSeq(Positions(Len(s)),
                             LAMBDA p : ~(Blank(s[p]) /\ p > 1 /\ Blank(s[p - 1]))))

\* .replace(micro sign, micro sign)
ReplaceMicro(s) == [i \in 1..Len(s) |-> IF s[i] = Micro THEN Micro ELSE s[i]]

Normalize(full) == ReplaceMicro(CollapseBlanks(full))

Max(a, b) == IF a >= b THEN a ELSE b

\* lo_v, hi_v = int(m.group(1)), int(m.group(2)); out["uln_ast"] = float(max(lo_v, hi_v))
SetUlnFromRange(out, m, text) ==
  Put(out, "uln_ast",
      Num(Scale * Max(IntOfDigits(Group(m, text, 1)), IntOfDigits(Group(m, text, 2)))))

RECURSIVE RangeLoop(_, _, _)

\* RangeStep without the break: a later range pattern that matches overwrites
RangeStepNoBreak(out, m, pats, text) ==
  RangeLoop(IF m.ok THEN SetUlnFromRange(out, m, text) ELSE out, Tail(pats), text)

\* if m: out["uln_ast"] = ...; break -- else the loop goes on with the next pattern
RangeStep(out, m, pats, text) ==
  IF m.ok THEN SetUlnFromRange(out, m, text) ELSE RangeLoop(out, Tail(pats), text)

\* for pat in ULN_RANGE_PATTERNS: m = re.search(pat, text, flags=re.I) ...
RangeLoop(out, pats, text) ==
  IF pats = << >> THEN out ELSE RangeStep(out, Search(Head(pats), text), pats, text)

RangeStage(out, text) ==
  IF "uln_ast" \notin DOMAIN out THEN RangeLoop(out, ULN_RANGE_PATTERNS, text) ELSE out

\* TieredSearch with the tiers in the other order
TieredSearchLooseFirst(key, text) ==
  FirstOk(Search(LOOSE_PATTERNS[key], text), Search(STRICT_PATTERNS[key], text))

\* the match search_and_set uses: the strict pattern's, else the loose pattern's
TieredSearch(key, text) ==
  FirstOk(Search(STRICT_PATTERNS[key], text), Search(LOOSE_PATTERNS[key], text))

\* SetFromMatch with a placeholder stored where nothing matched
SetFromMatchOrDefault(out, key, m, text) ==
  Put(out, key, IF m.ok THEN Str(Strip(Group(m, text, 1))) ELSE Str(<<"0">>))

\* if m: out[key] = m.group(1).strip()
SetFromMatch(out, key, m, text) ==
  IF m.ok THEN Put(out, key, Str(Strip(Group(m, text, 1)))) ELSE out

\* search_and_set without the guard that keeps a uln_ast taken from a range
search_and_set_overwriting(out, key, text) ==
  SetFromMatch(out, key, TieredSearch(key, text), text)

\* if key == "uln_ast" and "uln_ast" in out: return -- else the tiered search
search_and_set(out, key, text) ==
  IF key = "uln_ast" /\ "uln_ast" \in DOMAIN out THEN out
  ELSE SetFromMatch(out, key, TieredSearch(key, text), text)

RECURSIVE SearchLoop(_, _, _)
\* for k in STRICT_PATTERNS.keys(): search_and_set(k)
SearchLoop(out, keys, text) ==
  IF keys = << >> THEN out
  ELSE SearchLoop(search_and_set(out, Head(keys), text), Tail(keys), text)

\* r"Albumin[^\n]{0,40}?(\d+(?:\.\d+)?)\s*(g/?dL|g/?L)"
AlbuminUnitPattern ==
  AlbuminLabel \o RepLazy(NotNL, 0, 40) \o Cap(1, Number) \o Star(Cls(Spaces))
    \o Cap(2, Alt(<< Lit(<<"g">>) \o Opt(Lit(<<"/">>)) \o Lit(<<"d","L">>),
                     Lit(<<"g">>) \o Opt(Lit(<<"/">>)) \o Lit(<<"L">>) >>))

\* needle in hay, for strings
Contains(hay, needle) ==
  \E i \in 1..(Len(hay) - Len(needle) + 1) : SubSeq(hay, i, i + Len(needle) - 1) = needle

\* .replace(" ", "")
RemoveSpaces(s) == SelectSeq(s, LAMBDA c : c # " ")

\* float(v), or None where it raises
NumOrNone(f) == IF f.ok THEN Num(f.num) ELSE None

FloatOrNone(v) == NumOrNone(FloatOf(v))

\* m and "g/L" in m.group(2).replace(" ", "").lower()
UnitIsGramPerLitre(m, text) ==
  m.ok /\ Contains(LowerStr(RemoveSpaces(Group(m, text, 2))), <<"g", "/", "L">>)

\* out["albumin_gdl"] = out["albumin_gdl"] / 10.0 where the unit found is g/L
\* and the value is a number
ConvertAlbumin(v, m, text) ==
  IF UnitIsGramPerLitre(m, text) /\ IsNum(v) THEN Num(v.num \div 10) ELSE v

AlbuminStage(out, text) ==
  IF "albumin_gdl" \in DOMAIN out
  THEN Put(out, "albumin_gdl",
           ConvertAlbumin(FloatOrNone(out["albumin_gdl"]),
                          Search(AlbuminUnitPattern, text), text))
  ELSE out

NumericKeys == {"ast_ul", "alt_ul", "ggt_ul", "tg_mgdl", "platelets", "albumin_gdl",
                "uln_ast", "age"}

\* for num_key in [...]: out[num_key] = float(out[num_key]), None where it raises
CastStage(out) ==
  [k \in DOMAIN out |-> IF k \in NumericKeys THEN FloatOrNone(out[k]) ELSE out[k]]

StartsWith(s, c) == s # << >> /\ s[1] = c

\* str(out["sex"]).strip().upper(), then "F", "M" or the string itself
SexStage(out) ==
  IF "sex" \in DOMAIN out
  THEN LET s == UpperStr(Strip(out["sex"].str))
       IN Put(out, "sex", IF StartsWith(s, "F") THEN Str(<<"F">>)
                          ELSE IF StartsWith(s, "M") THEN Str(<<"M">>) ELSE Str(s))
  ELSE out

\* the stages after the text is read
Extract(text) ==
  SexStage(CastStage(AlbuminStage(SearchLoop(RangeStage(EmptyDict, text), Keys, text), text)))

\* The try block: pdfplumber.open and page.extract_text raise on a file they
\* cannot read, and full stays "".
ReadPages(doc) ==
  [raised |-> ~doc.readable, full |-> IF doc.readable THEN FullText(doc) ELSE << >>]

\* Returned without the except clause: the exception leaves the function
ReturnedUncaught(t) ==
  [out |-> IF t.raised THEN EmptyDict ELSE Extract(Normalize(t.full)),
   full |-> t.full, raised |-> t.raised]

\* [out, full, raised]: what the function returns from what the try block
\* read, and whether an exception leaves it.  except Exception: return out, full
Returned(t) ==
  IF t.raised THEN [out |-> EmptyDict, full |-> t.full, raised |-> FALSE]
  ELSE [out |-> Extract(Normalize(t.full)), full |-> t.full, raised |-> FALSE]

parse_pdf_bytes_return_text(doc) == Returned(ReadPages(doc))

-----------------------------------------------------------------------------
(* sanitize_state *)

limits ==
  [tg |-> <<10, 5000>>, ggt |-> <<1, 2000>>, ast |-> <<1, 5000>>, alt |-> <<1, 5000>>,
   uln_ast |-> <<5, 200>>, platelets |-> <<20, 1000>>, albumin |-> <<1, 6>>,
   bmi |-> <<10, 80>>, waist |-> <<40, 200>>, age |-> <<0, 120>>]

\* ClampFloat without the upper limit
ClampFloatNoUpper(x, lo, hi) ==
  IF ~x.ok THEN None
  ELSE IF x.num < lo * Scale THEN Num(lo * Scale)
  ELSE Num(x.num)

\* ClampFloat that takes a value above the upper limit for one in a ten times
\* finer unit and rescales it
ClampFloatRescaling(x, lo, hi) ==
  IF ~x.ok THEN None
  ELSE IF x.num < lo * Scale THEN Num(lo * Scale)
  ELSE IF x.num > hi * Scale THEN Num(x.num \div 10)
  ELSE Num(x.num)

\* _clamp(v, lo, hi); None where float(v) raises
ClampFloat(x, lo, hi) ==
  IF ~x.ok THEN None
  ELSE IF x.num < lo * Scale THEN Num(lo * Scale)
  ELSE IF x.num > hi * Scale THEN Num(hi * Scale)
  ELSE Num(x.num)

Clamp(v, lo, hi) == ClampFloat(FloatOf(v), lo, hi)

\* if v is not None: st.session_state[k] = v -- else the entry stays as it is
StoreUnlessNone(v, old) == IF v # None THEN v ELSE old

\* what sanitize_state leaves in st.session_state
SanitizeState(ss) ==
  [k \in DOMAIN ss |->
     IF k \in DOMAIN limits
     THEN StoreUnlessNone(Clamp(ss[k], limits[k][1], limits[k][2]), ss[k])
     ELSE ss[k]]

mapping ==
  [ast_ul |-> "ast", alt_ul |-> "alt", ggt_ul |-> "ggt", tg_mgdl |-> "tg",
   platelets |-> "platelets", albumin_gdl |-> "albumin", uln_ast |-> "uln_ast",
   age |-> "age", sex |-> "sex", name |-> "name"]

\* for key, val in data.items(): if key in mapping: st.session_state[mapping[key]] = val
Merge(ss, d) ==
  LET set == {k \in DOMAIN d : k \in DOMAIN mapping}
      tgt == {mapping[k] : k \in set}
  IN [x \in (DOMAIN ss) \cup tgt |->
        IF x \in tgt THEN d[CHOOSE k \in set : mapping[k] = x] ELSE ss[x]]

-----------------------------------------------------------------------------
(* Documents the uploader is given *)

MaxPages == 2

AstLine == <<"A","S","T"," ","3","5"," ","U","/","L">>

AstLineWithRanges == <<"A","S","T"," ","3","5"," ","U","/","L"," ","3","-","5","0"," ","r","a","n","g","e"," ","1","0","-","4","0">>

AstRangeLine == <<"A","S","T"," ","r","a","n","g","e"," ","6","0",EnDash,"4","0">>

AstUlnLine == <<"A","S","T"," ","r","a","n","g","e"," ","4","0"," ","U","/","L">>

AltLines == <<"A","L","T","\n","3","0">>

GgtTgLines == <<"G","G","T"," ","4","5"," ","I","U","/","L","\n","T","G"," ","1","6","0"," ","m","g","/","d","L">>

TgHighLine == <<"T","r","i","g","l","y","c","e","r","i","d","e","s"," ","2","5","0","0"," ","m","g","/","d","L">>

PlateletLine == <<"P","l","a","t","e","l","e","t","s"," ","\t","1","5","0","0"," ","1","0","^","9","/","L">>

AlbuminGramPerLitre == <<"A","l","b","u","m","i","n"," ","3","8"," ","g","/","L">>

AlbuminGramPerDecilitre == <<"A","l","b","u","m","i","n"," ","4",".","2"," ","g","/","d","L">>

SgotLine == <<"S","G","O","T"," ","4","1",".","5"," ","I","U","/","L"," ","r","e","f"," ","r","a","n","g","e"," ","5"," ","-"," ","4","5">>

AstIntervalLine == <<"A","S","T"," ","b","i","o","."," ","r","e","f"," ","i","n","t","e","r","v","a","l"," ","7",Hyphen2010,"4","5">>

PlateletCountLine == <<"P","l","a","t","e","l","e","t"," ","c","o","u","n","t"," ","9"," ","1","0","^","3","/",Micro,"L">>

\* the demographics block of a report
Demographics ==
  <<"N","a","m","e",":"," ","B","o","\n","S","e","x",":"," ","F","e","m","a","l","e","\n","A","g","e",":"," ","4","5"," ","y","r","s">>

\* what page.extract_text() returns for the pages of lab reports
PageTexts ==
  { AstLine, AstLineWithRanges, AstRangeLine, AstUlnLine, SgotLine, AstIntervalLine,
    AltLines, GgtTgLines, TgHighLine, PlateletLine, PlateletCountLine, AlbuminGramPerLitre,
    AlbuminGramPerDecilitre, Demographics, << >> }

\* a page with text, or a scanned page
Pages == { Page(t) : t \in PageTexts } \cup { NoTextPage }

RECURSIVE PageSeqs(_)
\* the page sequences of at most n pages
PageSeqs(n) ==
  IF n = 0 THEN { << >> }
  ELSE PageSeqs(n - 1) \cup { Append(ps, p) : ps \in PageSeqs(n - 1), p \in Pages }

\* a file pdfplumber cannot open
Unreadable == [readable |-> FALSE, pages |-> << >>]

Docs == { Unreadable } \cup { [readable |-> TRUE, pages |-> ps] : ps \in PageSeqs(MaxPages) }

-----------------------------------------------------------------------------
(* The upload handler *)

\* what the widgets leave in st.session_state on the run before a file is given
WidgetDefaults ==
  [name |-> Str(<< >>), sex |-> Str(<<"M">>), age |-> Num(40 * Scale),
   bmi |-> Num(27 * Scale), waist |-> Num(95 * Scale), tg |-> Num(160 * Scale),
   ggt |-> Num(45 * Scale), ast |-> Num(35 * Scale), alt |-> Num(30 * Scale),
   uln_ast |-> Num(40 * Scale), platelets |-> Num(230 * Scale),
   albumin |-> Num(4200), diab |-> Str(<<"N","o">>)]

\* min_value and max_value of the st.number_input that reads each key
WidgetRanges ==
  [age |-> <<0, 120>>, bmi |-> <<10, 80>>, waist |-> <<40, 200>>, tg |-> <<10, 2000>>,
   ggt |-> <<1, 2000>>, ast |-> <<1, 5000>>, alt |-> <<1, 5000>>, uln_ast |-> <<10, 100>>,
   platelets |-> <<20, 1000>>, albumin |-> <<1, 6>>]

\* up is the file given to the uploader, which the handler has not yet read;
\* before lists the session states sanitize_state was called on
Init ==
  /\ up \in Docs
  /\ data = EmptyDict
  /\ raw_text = << >>
  /\ session_state = WidgetDefaults
  /\ before = << >>
  /\ pc = "idle"
  /\ OthersIdle

\* data, raw_text = parse_pdf_bytes_return_text(up); if data: the parsed values
\* are merged into st.session_state and sanitize_state() runs
Handled(r) ==
  /\ data' = r.out
  /\ raw_text' = r.full
  /\ IF r.out # EmptyDict
     THEN /\ before' = Append(before, Merge(session_state, r.out))
          /\ session_state' = SanitizeState(Merge(session_state, r.out))
     ELSE UNCHANGED <<before, session_state>>
  /\ pc' = IF r.raised THEN "crashed" ELSE "uploaded"

Upload ==
  /\ pc = "idle"
  /\ UNCHANGED <<up, others>>
  /\ Handled(parse_pdf_bytes_return_text(up))

Next == Upload

Spec == Init /\ [][Next]_vars

-----------------------------------------------------------------------------
(* sanitize_state on its own, applied to a session state and then again *)

MaxStored == 2

\* Values st.session_state may hold for a key with the limits (lo, hi) when
\* sanitize_state runs: floats below, at, between, at and above the limits, the
\* None that the parser's cast stage stores for a capture float() refuses
\* (out[num_key] = None), and strings, which _clamp passes to float() as well.
StoredValues(lo, hi) ==
  { Num(lo * Scale - 1), Num(lo * Scale), Num((lo * Scale + hi * Scale) \div 2),
    Num(hi * Scale), Num(hi * Scale + 1), Num(hi * Scale + (hi * Scale) \div 2),
    None, Str(<<"7">>), Str(<<"n","/","a">>) }

RECURSIVE StatesOver(_)
\* the session states that hold the keys ks, each with one of its values
StatesOver(ks) ==
  IF ks = {} THEN { [name |-> Str(<<"B","o">>)] }
  ELSE LET k == CHOOSE x \in ks : TRUE
       IN { Put(ss, k, v) : ss \in StatesOver(ks \ {k}),
                            v \in StoredValues(limits[k][1], limits[k][2]) }

\* the session state holds at most MaxStored of the keys with limits
InitSanitize ==
  /\ up = Unreadable
  /\ data = EmptyDict
  /\ raw_text = << >>
  /\ \E ks \in SUBSET (DOMAIN limits) :
       Cardinality(ks) <= MaxStored /\ session_state \in StatesOver(ks)
  /\ before = << >>
  /\ pc = "fresh"
  /\ OthersIdle

\* sanitize_state()
Sanitize ==
  /\ pc \in {"fresh", "once"}
  /\ before' = Append(before, session_state)
  /\ session_state' = SanitizeState(session_state)
  /\ pc' = IF pc = "fresh" THEN "once" ELSE "twice"
  /\ UNCHANGED <<up, data, raw_text, others>>

NextSanitize == Sanitize

SpecSanitize == InitSanitize /\ [][NextSanitize]_vars

-----------------------------------------------------------------------------
(* Batch processing: one row of the uploaded CSV *)

\* an empty cell, and float("nan")
NaN == [kind |-> "nan", num |-> 0, str |-> << >>]

\* pd.notna(cell)
NotNa(c) == c # NaN /\ c # None

\* [ok, val]: a conversion that gave val, or raised
Gave(v) == [ok |-> TRUE, val |-> v]

Raised == [ok |-> FALSE, val |-> None]

\* float(cell): nan stays nan
CellFloat(c) ==
  IF c = NaN THEN Gave(NaN)
  ELSE IF FloatOf(c).ok THEN Gave(Num(FloatOf(c).num)) ELSE Raised

\* int(cell): a float is truncated, a string must be all digits
CellInt(c) ==
  CASE c.kind = "num" -> Gave(Num(Scale * (c.num \div Scale)))
    [] c.kind = "str" ->
         IF Strip(c.str) # << >> /\ AllDigits(Strip(c.str))
         THEN Gave(Num(Scale * IntOfDigits(Strip(c.str)))) ELSE Raised
    [] OTHER -> Raised

\* the local each column is read into
ColumnOf ==
  [age |-> "age", bmi |-> "bmi", waist |-> "waist_cm", tg |-> "tg_mgdl", ggt |-> "ggt_ul",
   ast |-> "ast_ul", alt |-> "alt_ul", uln |-> "uln_ast", plate |-> "platelets",
   alb |-> "albumin_gdl", diab |-> "diab_ifg"]

\* r.get(col, float("nan")): an absent column reads as an empty cell
Cell(r, col) == IF col \in DOMAIN r THEN r[col] ELSE NaN

\* the right-hand side of the assignment to the local f, in the try block
Conversion(f, c) ==
  CASE f = "uln" -> IF NotNa(c) THEN CellFloat(c) ELSE Gave(Num(40 * Scale))
    [] f = "plate" -> IF NotNa(c) THEN CellFloat(c) ELSE Gave(Num(250 * Scale))
    [] f = "alb" -> IF NotNa(c) THEN CellFloat(c) ELSE Gave(None)
    [] f = "diab" -> IF NotNa(c) THEN CellInt(c) ELSE Gave(Num(0))
    [] OTHER -> CellFloat(c)

Conversions(r) == [f \in DOMAIN ColumnOf |-> Conversion(f, Cell(r, ColumnOf[f]))]

\* except Exception: age = bmi = ... = alb = None; diab = 0
AllNone == [f \in DOMAIN ColumnOf |-> IF f = "diab" THEN Num(0) ELSE None]

\* the locals after the try statement: one conversion that raises leaves the
\* try block, and the except clause sets every local
Locals(cs) ==
  IF \A f \in DOMAIN cs : cs[f].ok THEN [f \in DOMAIN cs |-> cs[f].val] ELSE AllNone

\* whether float(v) <= 0 holds (nan compares false)
NotPositive(v) == v.kind = "num" /\ v.num <= 0

\* whether fib4_score / apri_score return None for these arguments: float(None)
\* raises, and a divisor that is not positive returns None
IsNoneFib4(age, ast, alt, plate) ==
  None \in {age, ast, alt, plate} \/ NotPositive(alt) \/ NotPositive(plate)

IsNoneApri(ast, uln, plate) ==
  None \in {ast, uln, plate} \/ NotPositive(uln) \/ NotPositive(plate)

\* the entry appended to results: the cells as read, and which of the two
\* scores are None
ResultOf(r, l) ==
  [cells |-> [f \in DOMAIN ColumnOf |-> Cell(r, ColumnOf[f])],
   fib4_none |-> IsNoneFib4(l["age"], l["ast"], l["alt"], l["plate"]),
   apri_none |-> IsNoneApri(l["ast"], l["uln"], l["plate"])]

MaxOddCells == 2

\* a row of a well-formed sheet
PlainRow ==
  [age |-> Num(45 * Scale), bmi |-> Num(27 * Scale), waist_cm |-> Num(95 * Scale),
   tg_mgdl |-> Num(160 * Scale), ggt_ul |-> Num(45 * Scale), ast_ul |-> Num(35 * Scale),
   alt_ul |-> Num(30 * Scale), uln_ast |-> Num(50 * Scale), platelets |-> Num(230 * Scale),
   albumin_gdl |-> Num(4200), diab_ifg |-> Num(Scale)]

\* what else pd.read_csv leaves in a cell: nothing, a number read as text
\* (the column holds text elsewhere), text that is no number, zero
OddCells == { NaN, Str(<<"7">>), Str(<<"1","2","x">>), Num(0) }

RECURSIVE RowsWith(_)
\* the rows that differ from PlainRow in the columns cols
RowsWith(cols) ==
  IF cols = {} THEN { PlainRow }
  ELSE LET c == CHOOSE x \in cols : TRUE
       IN { [r EXCEPT ![c] = v] : r \in RowsWith(cols \ {c}), v \in OddCells }

InitBatch ==
  /\ up = Unreadable
  /\ data = EmptyDict
  /\ raw_text = << >>
  /\ session_state = WidgetDefaults
  /\ before = << >>
  /\ pc = "row"
  /\ \E cols \in SUBSET (DOMAIN PlainRow) :
       Cardinality(cols) <= MaxOddCells /\ row \in RowsWith(cols)
  /\ fields = EmptyDict
  /\ results = << >>
  /\ score = [of |-> "none", x |-> None]
  /\ shown = [category |-> "", sub |-> None]

Processed(l) ==
  /\ fields' = l
  /\ results' = Append(results, ResultOf(row, l))
  /\ pc' = "row_done"

\* one pass of the loop over df.iterrows()
ProcessRow ==
  /\ pc = "row"
  /\ Processed(Locals(Conversions(row)))
  /\ UNCHANGED <<up, data, raw_text, session_state, before, row, score, shown>>

NextBatch == ProcessRow

SpecBatch == InitBatch /\ [][NextBatch]_vars

-----------------------------------------------------------------------------
(* The fibrosis scores: category and sub-score of a score value *)

\* A score value x is held as Num(x * ScoreScale), so that 0.675 and 0.676 have
\* values between them; a sub-score is held as Num(sub * Scale).
ScoreScale == 10000

MaxScore == 30000

categorize_fib4(x) ==
  IF x = None THEN <<"NA", "#cccccc">>
  ELSE IF 10 * x.num <= 13 * ScoreScale THEN <<"Low (rules out advanced fibrosis)", "#2e7d32">>
  ELSE IF 100 * x.num < 267 * ScoreScale THEN <<"Indeterminate", "#f9a825">>
  ELSE <<"High (advanced fibrosis likely)", "#c62828">>

categorize_apri(x) ==
  IF x = None THEN <<"NA", "#cccccc">>
  ELSE IF 2 * x.num < ScoreScale THEN <<"Low", "#2e7d32">>
  ELSE IF x.num < ScoreScale THEN <<"Indeterminate", "#f9a825">>
  ELSE <<"High", "#c62828">>

categorize_nfs(x) ==
  IF x = None THEN <<"NA", "#cccccc">>
  ELSE IF 1000 * x.num < -1455 * ScoreScale THEN <<"Low", "#2e7d32">>
  ELSE IF 1000 * x.num <= 675 * ScoreScale THEN <<"Indeterminate", "#f9a825">>
  ELSE <<"High", "#c62828">>

\* between the thresholds: max(40.0, 100.0 - (x - 1.3) * (60.0 / (2.67 - 1.3)))
subscore_fib4(x) ==
  IF x = None THEN None
  ELSE IF 10 * x.num <= 13 * ScoreScale THEN Num(100 * Scale)
  ELSE IF 100 * x.num < 267 * ScoreScale
       THEN Num(Max(40 * Scale,
                    100 * Scale - ((x.num - (13 * ScoreScale) \div 10) * (60 * 100))
                                    \div ((267 - 130) * (ScoreScale \div Scale))))
  ELSE Num(20 * Scale)

\* max(60.0, 100.0 - (x - 0.5) * 40.0), then max(20.0, 60.0 - (x - 1.5) * (40.0 / 0.5))
subscore_apri(x) ==
  IF x = None THEN None
  ELSE IF 2 * x.num <= ScoreScale THEN Num(100 * Scale)
  ELSE IF 2 * x.num <= 3 * ScoreScale
       THEN Num(Max(60 * Scale, 100 * Scale - ((2 * x.num - ScoreScale) * 20 * Scale) \div ScoreScale))
  ELSE IF x.num <= 2 * ScoreScale
       THEN Num(Max(20 * Scale, 60 * Scale - ((2 * x.num - 3 * ScoreScale) * 40 * Scale) \div ScoreScale))
  ELSE Num(20 * Scale)

subscore_nfs(x) ==
  IF x = None THEN None
  ELSE IF 1000 * x.num <= -1455 * ScoreScale THEN Num(100 * Scale)
  ELSE IF 1000 * x.num < 676 * ScoreScale THEN Num(50 * Scale)
  ELSE Num(20 * Scale)

\* a score of one of the three kinds: None, or a value up to MaxScore / ScoreScale
\* either side of zero
InitScores ==
  /\ up = Unreadable
  /\ data = EmptyDict
  /\ raw_text = << >>
  /\ session_state = WidgetDefaults
  /\ before = << >>
  /\ pc = "score"
  /\ row = EmptyDict
  /\ fields = EmptyDict
  /\ results = << >>
  /\ score \in [of : {"fib4", "apri", "nfs"},
                x : {None} \cup {Num(n) : n \in (-MaxScore)..MaxScore}]
  /\ shown = [category |-> "", sub |-> None]

\* the category shown for the score and the sub-score that enters the
\* liver health score
ShowScore ==
  /\ pc = "score"
  /\ shown' = CASE score.of = "fib4" ->
                     [category |-> categorize_fib4(score.x)[1], sub |-> subscore_fib4(score.x)]
                [] score.of = "apri" ->
                     [category |-> categorize_apri(score.x)[1], sub |-> subscore_apri(score.x)]
                [] score.of = "nfs" ->
                     [category |-> categorize_nfs(score.x)[1], sub |-> subscore_nfs(score.x)]
  /\ pc' = "shown"
  /\ UNCHANGED <<up, data, raw_text, session_state, before, row, fields, results, score>>

NextScores == ShowScore

SpecScores == InitScores /\ [][NextScores]_vars

-----------------------------------------------------------------------------
(* Properties of the extraction, of a handled upload *)

KeySet == {Keys[i] : i \in 1..Len(Keys)}

\* the value the function returns for key from the capture of the match m
Resolved(key, m, text) == SexStage(CastStage(SetFromMatch(EmptyDict, key, m, text)))[key]

Holds(key, v) == key \in DOMAIN data /\ data[key] = v

\* whether one of the range patterns matches
RangeMatched(text) ==
  Search(ULN_RANGE_PATTERNS[1], text).ok \/ Search(ULN_RANGE_PATTERNS[2], text).ok

\* the greater of the two integers a range match captured
MaxOfRange(m, text) ==
  IF IntOfDigits(Group(m, text, 1)) >= IntOfDigits(Group(m, text, 2))
  THEN IntOfDigits(Group(m, text, 1)) ELSE IntOfDigits(Group(m, text, 2))

\* with ms the strict and ml the loose match of key: where both match the
\* value is the strict capture, and the loose capture is the value only where
\* the strict pattern failed
TierRule(key, ms, ml, text) ==
  /\ ms.ok /\ ml.ok => Holds(key, Resolved(key, ms, text))
  /\ ~ms.ok /\ ml.ok => Holds(key, Resolved(key, ml, text))

TiersHold(keys, text) ==
  \A key \in keys :
    TierRule(key, Search(STRICT_PATTERNS[key], text), Search(LOOSE_PATTERNS[key], text), text)

\* C1 as stated: for every key of the catalog, when the strict and the loose
\* pattern both match the normalized text, the returned value is the strict
\* match's capture; the loose capture is used only after the strict pattern failed.
C1_StrictWinsForEveryKey ==
  pc = "uploaded" => TiersHold(KeySet, Normalize(raw_text))

TiersHoldUnlessRanged(text) ==
  TiersHold(IF RangeMatched(text) THEN KeySet \ {"uln_ast"} ELSE KeySet, text)

\* C1 amended: for every key of the catalog other than uln_ast, and for uln_ast
\* when no range pattern matched, when the strict and the loose pattern both
\* match the normalized text the returned value is the strict match's capture;
\* the loose capture is used only after the strict pattern failed.
C1_StrictWinsUnlessRanged ==
  pc = "uploaded" => TiersHoldUnlessRanged(Normalize(raw_text))

StrictBeatsLoose(key, ms, ml, text) ==
  /\ ms.ok /\ ml.ok
  /\ Resolved(key, ms, text) # Resolved(key, ml, text)
  /\ Holds(key, Resolved(key, ms, text))

\* the loose AST pattern finds 60 on the first page, the strict one 35 U/L on
\* the second, and ast_ul is 35
C1_Witness ==
  /\ pc = "uploaded"
  /\ up.pages = <<Page(AstRangeLine), Page(AstLine)>>
  /\ Holds("ast_ul", Num(35 * Scale))
  /\ StrictBeatsLoose("ast_ul", Search(STRICT_PATTERNS["ast_ul"], Normalize(raw_text)),
                      Search(LOOSE_PATTERNS["ast_ul"], Normalize(raw_text)),
                      Normalize(raw_text))

AlbuminRule(text) ==
  /\ Contains(text, AlbuminGramPerLitre) /\ ~Contains(text, AlbuminGramPerDecilitre)
       => session_state["albumin"] = Num((38 * Scale) \div 10)
  /\ Contains(text, AlbuminGramPerDecilitre) /\ ~Contains(text, AlbuminGramPerLitre)
       => session_state["albumin"] = Num((42 * Scale) \div 10)

\* C2: for a text containing "Albumin 38 g/L" the albumin value after
\* extraction and sanitizing is 3.8 (the capture divided by ten, the unit being
\* g/L); for "Albumin 4.2 g/dL" it is 4.2.
C2_AlbuminConverted ==
  pc = "uploaded" => AlbuminRule(Normalize(raw_text))

\* with m1 and m2 the matches of the first and the second range pattern
RangeRule(m1, m2, text) ==
  /\ m1.ok => Holds("uln_ast", Num(Scale * MaxOfRange(m1, text)))
  /\ ~m1.ok /\ m2.ok => Holds("uln_ast", Num(Scale * MaxOfRange(m2, text)))

RangeRuleOn(text) ==
  RangeRule(Search(ULN_RANGE_PATTERNS[1], text), Search(ULN_RANGE_PATTERNS[2], text), text)

\* C3: the range patterns are tried in their order; uln_ast is the greater of
\* the two integers the first pattern that matches captured, and a later
\* pattern that would match with other bounds changes nothing.
C3_FirstRangeWins ==
  pc = "uploaded" => RangeRuleOn(Normalize(raw_text))

BothRangesMatch(m1, m2, text) ==
  /\ m1.ok /\ m2.ok
  /\ Group(m1, text, 1) = <<"3">> /\ Group(m1, text, 2) = <<"5","0">>
  /\ MaxOfRange(m2, text) = 40

\* "AST 35 U/L 3-50 range 10-40": the first pattern captures 3 and 50, the
\* second would capture 10 and 40, and uln_ast is 50
C3_Witness ==
  /\ pc = "uploaded"
  /\ up.pages = <<Page(AstLineWithRanges)>>
  /\ Holds("uln_ast", Num(50 * Scale))
  /\ BothRangesMatch(Search(ULN_RANGE_PATTERNS[1], Normalize(raw_text)),
                     Search(ULN_RANGE_PATTERNS[2], Normalize(raw_text)), Normalize(raw_text))

\* with ranged: a range pattern matched, ms and ml the strict and the loose
\* match for uln_ast
UlnRule(ranged, ms, ml, text) ==
  /\ ranged => Holds("uln_ast", RangeStage(EmptyDict, text)["uln_ast"])
  /\ ~ranged /\ ms.ok => Holds("uln_ast", Resolved("uln_ast", ms, text))
  /\ ~ranged /\ ~ms.ok /\ ml.ok => Holds("uln_ast", Resolved("uln_ast", ml, text))
  /\ ~ranged /\ ~ms.ok /\ ~ml.ok => "uln_ast" \notin DOMAIN data

UlnRuleOn(text) ==
  UlnRule(RangeMatched(text), Search(STRICT_PATTERNS["uln_ast"], text),
          Search(LOOSE_PATTERNS["uln_ast"], text), text)

\* C4: uln_ast is the range-derived value when a range pattern matched (the
\* generic extraction does not overwrite it), the generic strict/loose capture
\* when none did, and absent when neither a range nor the strict nor the loose
\* pattern matches.
C4_UlnFromRangeElseGeneric ==
  pc = "uploaded" => UlnRuleOn(Normalize(raw_text))

GenericDiffers(ms, text) == ms.ok /\ Resolved("uln_ast", ms, text) = Num(40 * Scale)

\* the generic pattern finds 40 on the first page, a range 3-50 is on the
\* second, and uln_ast is 50
C4_Witness ==
  /\ pc = "uploaded"
  /\ up.pages = <<Page(AstUlnLine), Page(AstLineWithRanges)>>
  /\ Holds("uln_ast", Num(50 * Scale))
  /\ GenericDiffers(Search(STRICT_PATTERNS["uln_ast"], Normalize(raw_text)), Normalize(raw_text))

OnlyMatched(text) ==
  \A k \in DOMAIN data :
    /\ k \in KeySet
    /\ \/ k = "uln_ast" /\ RangeMatched(text)
       \/ Search(STRICT_PATTERNS[k], text).ok
       \/ Search(LOOSE_PATTERNS[k], text).ok

\* C9: every key of the returned result has a match of its strict or loose
\* pattern (or, for uln_ast, of a range pattern) in the text; a key none of
\* whose patterns matches is absent.
C9_OnlyMatchedKeys ==
  pc = "uploaded" => OnlyMatched(Normalize(raw_text))

\* from "AST 35 U/L" alone the result holds ast_ul and nothing else
C9_Witness ==
  /\ pc = "uploaded"
  /\ up.pages = <<Page(AstLine)>>
  /\ DOMAIN data = {"ast_ul"}

\* a file that cannot be read, or one none of whose pages gives any text
NoTextRead(doc) ==
  \/ ~doc.readable
  \/ \A i \in 1..Len(doc.pages) : ~doc.pages[i].text \/ doc.pages[i].chars = << >>

\* C10: an empty text, and a document no text can be read from, gives a result
\* without fields, and the function returns without raising.
C10_NoTextNoFields ==
  pc # "idle" /\ NoTextRead(up) => data = EmptyDict /\ pc = "uploaded"

\* a file pdfplumber cannot open has been handled
C10_Witness ==
  pc = "uploaded" /\ ~up.readable /\ data = EmptyDict /\ raw_text = << >>

-----------------------------------------------------------------------------
(* Properties of sanitize_state *)

Within(v, lo, hi) == IF v < lo THEN lo ELSE IF v > hi THEN hi ELSE v

\* old: the session state sanitize_state ran on, new: the one it left
ClampRule(old, new) ==
  \A k \in (DOMAIN limits) \cap (DOMAIN old) :
    IsNum(old[k]) =>
      /\ k \in DOMAIN new
      /\ new[k] = Num(Within(old[k].num, limits[k][1] * Scale, limits[k][2] * Scale))

\* C5: for every key with limits (lo, hi) and every number v stored for it,
\* sanitize_state leaves lo if v < lo, hi if v > hi, and v otherwise.
C5_Clamped ==
  pc \in {"once", "twice"} => ClampRule(before[Len(before)], session_state)

\* platelets of 1500 have become 1000
C5_Witness ==
  /\ pc = "once"
  /\ "platelets" \in DOMAIN before[1]
  /\ before[1]["platelets"] = Num(1500 * Scale)
  /\ session_state["platelets"] = Num(1000 * Scale)

DropRule(old, new) ==
  \A k \in (DOMAIN limits) \cap (DOMAIN old) :
    ~FloatOf(old[k]).ok => k \notin DOMAIN new

\* C6: a value stored for a key with limits that cannot be coerced to a number
\* has its key dropped by sanitize_state.
C6_DroppedWhenNotNumeric ==
  pc \in {"once", "twice"} => DropRule(before[Len(before)], session_state)

\* C7: sanitize_state applied twice leaves the same session state as applied once.
C7_Idempotent ==
  pc = "twice" => session_state = before[2]

\* the first application changed the session state, the second did not
C7_Witness ==
  pc = "twice" /\ before[1] # before[2] /\ session_state = before[2]

\* the widget that reads key k is given a number of its range
InWidgetRange(ss, k) ==
  /\ k \in DOMAIN ss
  /\ IsNum(ss[k])
  /\ WidgetRanges[k][1] * Scale <= ss[k].num
  /\ ss[k].num <= WidgetRanges[k][2] * Scale

\* C12: after the extracted values are merged into the session state and
\* sanitize_state has run, every clamped field lies within the min_value and
\* max_value of the number input that reads its key.
C12_WithinWidgetRanges ==
  pc = "uploaded" /\ data # EmptyDict =>
    \A k \in DOMAIN WidgetRanges : InWidgetRange(session_state, k)

-----------------------------------------------------------------------------
(* Properties of the batch loop *)

\* a cell that holds text float() and int() refuse
Malformed(f, c) == NotNa(c) /\ ~Conversion(f, c).ok

\* of a processed row r with locals l: the local of a malformed cell is None,
\* every other local holds what its own cell converts to, and the row has an
\* entry in results
DegradesField(r, l) ==
  /\ \A f \in DOMAIN ColumnOf :
       IF Malformed(f, Cell(r, ColumnOf[f])) THEN f \in DOMAIN l /\ l[f] = None
       ELSE f \in DOMAIN l /\ l[f] = Conversion(f, Cell(r, ColumnOf[f])).val
  /\ Len(results) = 1

\* C11: in batch processing of one row a malformed numeric cell makes only
\* that field absent; every other numeric field of the row keeps its parsed
\* value and the row is still processed.
C11_OnlyMalformedFieldAbsent ==
  pc = "row_done" => DegradesField(row, fields)

-----------------------------------------------------------------------------
(* Properties of the fibrosis scores *)

IsLow(category) == category \in {"Low", "Low (rules out advanced fibrosis)"}

IsHigh(category) == category \in {"High", "High (advanced fibrosis likely)"}

\* C13: for each fibrosis score and every score value, the sub-score is 100
\* exactly when the category is Low, and 20 exactly when the category is High,
\* the threshold values included.
C13_BandsAgreeWithCategories ==
  pc = "shown" =>
    /\ shown.sub = Num(100 * Scale) <=> IsLow(shown.category)
    /\ shown.sub = Num(20 * Scale) <=> IsHigh(shown.category)

====
